---- MODULE Spec2Model ----
(***************************************************************************)
(* Instagram Message Router: the webhook Cloud Function (src/main.py), the *)
(* warehouse tables it writes, and the dashboard/sync operations           *)
(* (src/dashboard/app.py, src/load_history.py) on the same tables.         *)
(*                                                                         *)
(* Strings are sequences of characters; a character outside ASCII is       *)
(* written "U+XXXX".  A BigQuery table is a bag of rows.                   *)
(***************************************************************************)
EXTENDS Naturals, Integers, Sequences, FiniteSets, Bags, TLC

VARIABLES
    APP_SECRET,     \* main.APP_SECRET, read once from the environment
    call,           \* one call of a pure function: its arguments and its return
    hs,             \* the webhook requests in flight, one per worker
    messages,       \* table instagram_messages.messages
    ad_comments     \* table instagram_messages.ad_comments

vars == <<APP_SECRET, call, hs, messages, ad_comments>>

----------------------------------------------------------------------------
(* Strings                                                                 *)

\* s[i..] starts with k
StartsAt(s, k, i) ==
    /\ i + Len(k) - 1 <= Len(s)
    /\ \A j \in 1..Len(k) : s[i + j - 1] = k[j]

\* Python: k in s
Contains(s, k) == \E i \in 1..(Len(s) + 1) : StartsAt(s, k, i)

LowerChar(c) ==
    LET UpperChars == <<"A","B","C","D","E","F","G","H","I","J","K","L","M","N","O","P","Q","R","S","T","U","V","W","X","Y","Z","U+00C4","U+00D6","U+00DC">>
        LowerChars == <<"a","b","c","d","e","f","g","h","i","j","k","l","m","n","o","p","q","r","s","t","u","v","w","x","y","z","U+00E4","U+00F6","U+00FC">>
    IN  IF \E i \in 1..Len(UpperChars) : UpperChars[i] = c
        THEN LowerChars[CHOOSE i \in 1..Len(UpperChars) : UpperChars[i] = c]
        ELSE c

\* Python: s.lower()
Lower(s) == [i \in 1..Len(s) |-> LowerChar(s[i])]

\* Python: any(kw in s for kw in kws)
AnyIn(kws, s) == \E i \in 1..Len(kws) : Contains(s, kws[i])

IsAscii(s) == \A i \in 1..Len(s) : Len(s[i]) = 1

----------------------------------------------------------------------------
(* Keyword tables                                                          *)

\* tag_keywords["Kooperationen"] of auto_tag_message
KooperationenKeywords ==
    << <<"z", "u", "s", "a", "m", "m", "e", "n", "a", "r", "b", "e", "i", "t">>,
       <<"k", "o", "o", "p", "e", "r", "a", "t", "i", "o", "n">>,
       <<"i", "n", "f", "l", "u", "e", "n", "c", "e", "r">>,
       <<"p", "r">>,
       <<"c", "o", "l", "l", "a", "b">>,
       <<"p", "a", "r", "t", "n", "e", "r", "s", "h", "i", "p">>,
       <<"w", "e", "r", "b", "u", "n", "g">>,
       <<"p", "r", "o", "m", "o", "t", "i", "o", "n">>,
       <<"c", "r", "e", "a", "t", "o", "r">>,
       <<"u", "g", "c">>,
       <<"a", "m", "b", "a", "s", "s", "a", "d", "o", "r">>,
       <<"b", "o", "t", "s", "c", "h", "a", "f", "t", "e", "r">> >>
\* tag_keywords["Feedback"] of auto_tag_message
FeedbackKeywords ==
    << <<"t", "o", "l", "l">>,
       <<"s", "u", "p", "e", "r">>,
       <<"d", "a", "n", "k", "e">>,
       <<"l", "i", "e", "b", "e">>,
       <<"p", "e", "r", "f", "e", "k", "t">>,
       <<"a", "m", "a", "z", "i", "n", "g">>,
       <<"l", "o", "v", "e">>,
       <<"g", "r", "e", "a", "t">>,
       <<"a", "w", "e", "s", "o", "m", "e">>,
       <<"w", "u", "n", "d", "e", "r", "s", "c", "h", "U+00F6", "n">>,
       <<"b", "e", "g", "e", "i", "s", "t", "e", "r", "t">>,
       <<"e", "m", "p", "f", "e", "h", "l", "e", "n">>,
       <<"z", "u", "f", "r", "i", "e", "d", "e", "n">>,
       <<"g", "l", "U+00FC", "c", "k", "l", "i", "c", "h">>,
       <<"h", "a", "p", "p", "y">>,
       <<"U+2764", "U+FE0F">>,
       <<"U+1F525">>,
       <<"U+1F60D">>,
       <<"U+1F44D">>,
       <<"U+1F495">>,
       <<"U+1F970">>,
       <<"U+1F60A">> >>
\* negative_keywords of analyze_comment_sentiment (webhook)
negative_keywords ==
    << <<"s", "c", "h", "l", "e", "c", "h", "t">>,
       <<"e", "n", "t", "t", "U+00E4", "u", "s", "c", "h", "t">>,
       <<"s", "c", "h", "r", "e", "c", "k", "l", "i", "c", "h">>,
       <<"b", "e", "t", "r", "u", "g">>,
       <<"f", "a", "k", "e">>,
       <<"a", "b", "z", "o", "c", "k", "e">>,
       <<"n", "i", "e", " ", "w", "i", "e", "d", "e", "r">>,
       <<"w", "a", "r", "n", "u", "n", "g">>,
       <<"f", "i", "n", "g", "e", "r", " ", "w", "e", "g">>,
       <<"m", "i", "s", "e", "r", "a", "b", "e", "l">>,
       <<"s", "c", "a", "m">>,
       <<"t", "e", "r", "r", "i", "b", "l", "e">>,
       <<"a", "w", "f", "u", "l">>,
       <<"w", "o", "r", "s", "t">>,
       <<"h", "a", "t", "e">> >>
\* question_keywords of analyze_comment_sentiment (webhook)
question_keywords ==
    << <<"?">>,
       <<"w", "a", "n", "n">>,
       <<"w", "i", "e">>,
       <<"v", "e", "r", "f", "U+00FC", "g", "b", "a", "r">>,
       <<"g", "r", "U+00F6", "U+00DF", "e">>,
       <<"p", "r", "e", "i", "s">>,
       <<"k", "o", "s", "t", "e", "t">>,
       <<"l", "i", "e", "f", "e", "r", "u", "n", "g">>,
       <<"f", "a", "r", "b", "e">>,
       <<"w", "h", "e", "r", "e">>,
       <<"w", "h", "e", "n">>,
       <<"h", "o", "w">> >>
\* negative_words of analyze_sentiment (dashboard)
negative_words ==
    << <<"s", "c", "h", "l", "e", "c", "h", "t">>,
       <<"e", "n", "t", "t", "U+00E4", "u", "s", "c", "h", "t">>,
       <<"U+00E4", "r", "g", "e", "r">>,
       <<"p", "r", "o", "b", "l", "e", "m">>,
       <<"k", "a", "p", "u", "t", "t">>,
       <<"d", "e", "f", "e", "k", "t">>,
       <<"r", "e", "k", "l", "a", "m", "a", "t", "i", "o", "n">>,
       <<"b", "e", "s", "c", "h", "w", "e", "r", "d", "e">>,
       <<"m", "a", "n", "g", "e", "l", "h", "a", "f", "t">>,
       <<"n", "i", "e", " ", "w", "i", "e", "d", "e", "r">>,
       <<"u", "n", "v", "e", "r", "s", "c", "h", "U+00E4", "m", "t">>,
       <<"b", "e", "t", "r", "u", "g">>,
       <<"a", "b", "z", "o", "c", "k", "e">>,
       <<"s", "c", "h", "r", "o", "t", "t">>,
       <<"m", "U+00FC", "l", "l">>,
       <<"f", "u", "r", "c", "h", "t", "b", "a", "r">>,
       <<"h", "o", "r", "r", "i", "b", "l", "e">> >>
\* question_words of analyze_sentiment (dashboard)
question_words ==
    << <<"?">>,
       <<"w", "a", "n", "n">>,
       <<"w", "i", "e">>,
       <<"w", "o">>,
       <<"w", "a", "r", "u", "m">>,
       <<"w", "e", "s", "h", "a", "l", "b">>,
       <<"k", "a", "n", "n", " ", "m", "a", "n">>,
       <<"g", "i", "b", "t", " ", "e", "s">>,
       <<"h", "a", "b", "t", " ", "i", "h", "r">>,
       <<"k", "U+00F6", "n", "n", "t", " ", "i", "h", "r">>,
       <<"v", "e", "r", "f", "U+00FC", "g", "b", "a", "r">>,
       <<"l", "i", "e", "f", "e", "r", "z", "e", "i", "t">>,
       <<"g", "r", "U+00F6", "U+00DF", "e">> >>

----------------------------------------------------------------------------
(* Event Classifier                                                        *)

\* auto_tag_message: tags is the list that ",".join(detected_tags) joins
auto_tag_message(message_text) ==
    LET text_lower == Lower(message_text)
        tag_keywords == << [tag |-> "Kooperationen", keywords |-> KooperationenKeywords],
                           [tag |-> "Feedback",      keywords |-> FeedbackKeywords] >>
        hits == SelectSeq(tag_keywords, LAMBDA tk : AnyIn(tk.keywords, text_lower))
        detected_tags == [i \in 1..Len(hits) |-> hits[i].tag]
    IN  [tags     |-> IF detected_tags = <<>> THEN <<"Kundenservice">> ELSE detected_tags,
         priority |-> "normal"]

\* analyze_comment_sentiment with the two keyword tests in the other order
analyze_comment_sentiment_question_first(text) ==
    LET text_lower == Lower(text)
    IN  IF AnyIn(question_keywords, text_lower)
        THEN [sentiment |-> "question", is_question |-> TRUE, contains_complaint |-> FALSE]
        ELSE IF AnyIn(negative_keywords, text_lower)
        THEN [sentiment |-> "negative", is_question |-> FALSE, contains_complaint |-> TRUE]
        ELSE [sentiment |-> "positive", is_question |-> FALSE, contains_complaint |-> FALSE]

\* analyze_sentiment without text.lower()
analyze_sentiment_case_sensitive(text) ==
    IF AnyIn(negative_words, text) THEN "negative"
    ELSE IF AnyIn(question_words, text) THEN "question"
    ELSE "positive"

\* analyze_comment_sentiment (webhook)
analyze_comment_sentiment(text) ==
    LET text_lower == Lower(text)
    IN  IF AnyIn(negative_keywords, text_lower)
        THEN [sentiment |-> "negative", is_question |-> FALSE, contains_complaint |-> TRUE]
        ELSE IF AnyIn(question_keywords, text_lower)
        THEN [sentiment |-> "question", is_question |-> TRUE, contains_complaint |-> FALSE]
        ELSE [sentiment |-> "positive", is_question |-> FALSE, contains_complaint |-> FALSE]

\* analyze_sentiment (dashboard sync)
analyze_sentiment(text) ==
    LET text_lower == Lower(text)
    IN  IF AnyIn(negative_words, text_lower) THEN "negative"
        ELSE IF AnyIn(question_words, text_lower) THEN "question"
        ELSE "positive"

----------------------------------------------------------------------------
(* Signature Verifier                                                      *)

\* The values APP_SECRET takes; <<>> is the unset variable's default ''.
AppSecrets == { <<>>, <<"s">>, <<"t">> }

\* Raw request bodies, by name: b"hello" is no JSON document; the other two
\* are JSON documents, whose entries the handler's loops read one by one.
Bodies == { "hello", "payload1", "payload2" }

BodyCode(msg) == CASE msg = "hello" -> 0 [] msg = "payload1" -> 1 [] OTHER -> 2

HexChars == <<"0", "a", "5", "f">>

\* hmac.new(key, msg, sha256).hexdigest(), shortened to two hex characters:
\* a keyed digest that differs for every two (key, msg) pairs of the model,
\* as HMAC-SHA256 does but for a negligible probability.
HmacHex(key, msg) ==
    LET k == IF key = <<"t">> THEN 2 ELSE 1
        b == BodyCode(msg)
    IN  << HexChars[((k + b) % 4) + 1], HexChars[((k + 2 * b) % 4) + 1] >>

Sha256Prefix == <<"s","h","a","2","5","6","=">>

\* hmac.compare_digest on two str: a TypeError when one of them holds a
\* character outside ASCII, otherwise their equality.
compare_digest(a, b) ==
    IF IsAscii(a) /\ IsAscii(b)
    THEN [raised |-> "", ret |-> (a = b)]
    ELSE [raised |-> "TypeError", ret |-> FALSE]

\* The print of the bypass branch
WARNING_NO_SECRET == "WARNING: APP_SECRET nicht gesetzt, Signatur-Check uebersprungen"

\* verify_signature whose bypass branch prints nothing
verify_signature_silent(payload, signature) ==
    IF APP_SECRET = <<>>
    THEN [raised |-> "", ret |-> TRUE, printed |-> {}]
    ELSE LET cmp == compare_digest(Sha256Prefix \o HmacHex(APP_SECRET, payload), signature)
         IN  [raised |-> cmp.raised, ret |-> cmp.ret, printed |-> {}]

\* verify_signature: the exception that leaves it (raised, "" for none), the
\* value it returns otherwise (ret), and what it prints.
verify_signature(payload, signature) ==
    IF APP_SECRET = <<>>
    THEN [raised |-> "", ret |-> TRUE, printed |-> {WARNING_NO_SECRET}]
    ELSE LET expected_signature == HmacHex(APP_SECRET, payload)
             cmp == compare_digest(Sha256Prefix \o expected_signature, signature)
         IN  [raised |-> cmp.raised, ret |-> cmp.ret, printed |-> {}]

\* Values of the X-Hub-Signature-256 header: missing (the default ''), a bare
\* two-character digest, or 'sha256=' and a two-character digest; the digest
\* characters include one that is not ASCII.
Signatures ==
    LET HeaderChars == {"0", "a", "5", "f", "U+00E9"}
        DigestLike == { <<x, y>> : x \in HeaderChars, y \in HeaderChars }
    IN  { <<>> } \cup DigestLike \cup { Sha256Prefix \o d : d \in DigestLike }

----------------------------------------------------------------------------
(* Warehouse tables                                                        *)

\* A column no INSERT gave a value
NULL == "NULL"

MessageIds == {"m1", "m2"}
CommentIds == {"c1", "c2"}
\* Instagram ids of customers, and the own account's id
SenderIds == {"u1"}
OWN_IG_ID == "own"
\* Vendor event times, and the values of utcnow()
EventTimes == {1}
Clock == {1}

\* str(b).upper(): the SQL literal of a Python bool
SqlBool(b) == IF b THEN "TRUE" ELSE "FALSE"

Danke == <<"D", "a", "n", "k", "e">>
Hallo == <<"H", "a", "l", "l", "o">>
Betrug == <<"B", "e", "t", "r", "u", "g", "!">>
MessageTexts == {Danke, Hallo}
CommentTexts == {Betrug, Hallo}

RECURSIVE SumOver(_, _)
SumOver(S, B) ==
    IF S = {} THEN 0
    ELSE LET x == CHOOSE y \in S : TRUE IN B[x] + SumOver(S \ {x}, B)

\* SELECT COUNT(*) FROM table WHERE P
CountRows(table, P(_)) == SumOver({r \in DOMAIN table : P(r)}, table)

\* INSERT INTO table VALUES row
Insert(table, row) == table (+) SetToBag({row})

\* UPDATE table SET F WHERE P
Update(table, P(_), F(_)) ==
    LET G(r) == IF P(r) THEN F(r) ELSE r
        img  == {G(r) : r \in DOMAIN table}
    IN  [r2 \in img |-> SumOver({r \in DOMAIN table : G(r) = r2}, table)]

TotalRows == BagCardinality(messages) + BagCardinality(ad_comments)

----------------------------------------------------------------------------
(* Webhook: records                                                        *)

\* process_message without the story-reply override of the tagging
process_message_keywords_only(messaging_event, now) ==
    IF messaging_event.shape # "object"
    THEN [raised |-> "AttributeError"]
    ELSE LET tagging == auto_tag_message(messaging_event.text)
         IN  [raised         |-> "",
              message_id     |-> messaging_event.mid,
              sender_id      |-> messaging_event.sender,
              recipient_id   |-> OWN_IG_ID,
              timestamp      |-> messaging_event.timestamp,
              received_at    |-> now,
              message_text   |-> messaging_event.text,
              is_story_reply |-> messaging_event.story,
              tags           |-> tagging.tags,
              priority       |-> tagging.priority,
              status         |-> "new"]

\* One element of entry.messaging: an object, or a JSON string
MessagingEvents ==
    [shape : {"object"}, mid : MessageIds, sender : SenderIds,
     timestamp : EventTimes, text : MessageTexts, story : BOOLEAN]
    \cup {[shape |-> "string"]}

\* process_message: raised names the exception that leaves it
process_message(messaging_event, now) ==
    IF messaging_event.shape # "object"
    THEN [raised |-> "AttributeError"]
    ELSE LET tagging == auto_tag_message(messaging_event.text)
             is_story_reply == messaging_event.story
         IN  [raised         |-> "",
              message_id     |-> messaging_event.mid,
              sender_id      |-> messaging_event.sender,
              recipient_id   |-> OWN_IG_ID,
              timestamp      |-> messaging_event.timestamp,
              received_at    |-> now,
              message_text   |-> messaging_event.text,
              is_story_reply |-> is_story_reply,
              tags           |-> IF is_story_reply THEN <<"Feedback">> ELSE tagging.tags,
              priority       |-> IF is_story_reply THEN "low" ELSE tagging.priority,
              status         |-> "new"]

\* The row of save_to_bigquery's INSERT
MessageRow(message_data) ==
    [message_id     |-> message_data.message_id,
     sender_id      |-> message_data.sender_id,
     sender_name    |-> NULL,
     recipient_id   |-> message_data.recipient_id,
     timestamp      |-> message_data.timestamp,
     received_at    |-> message_data.received_at,
     message_text   |-> message_data.message_text,
     is_story_reply |-> message_data.is_story_reply,
     tags           |-> message_data.tags,
     priority       |-> message_data.priority,
     status         |-> "new",
     direction      |-> NULL,
     response_text  |-> NULL,
     responded_by   |-> NULL]

\* One element of entry.changes: an object whose value is an object, an
\* object whose value is a JSON string, or a JSON string
IsNewComment(change) ==
    /\ change.field \in {"comments", "feed"}
    /\ change.item = "comment"
    /\ change.verb \in {"add", "created"}

\* (the id and text of a change that is no new comment are never read: one
\* value of each stands for all)
Changes ==
    { c \in [shape : {"object"}, field : {"comments", "feed", "mentions"},
             item : {"comment", "post"}, verb : {"add", "created", "remove"},
             comment_id : CommentIds, text : CommentTexts] :
        IsNewComment(c) \/ (c.comment_id = "c1" /\ c.text = Hallo) }
    \cup [shape : {"value_string"}, field : {"comments", "feed", "mentions"}]
    \cup {[shape |-> "string"]}

\* process_comment
process_comment(change) ==
    LET value == change
        sentiment == analyze_comment_sentiment(value.text)
    IN  [comment_id         |-> value.comment_id,
         comment_text       |-> value.text,
         sentiment          |-> sentiment.sentiment,
         is_question        |-> sentiment.is_question,
         contains_complaint |-> sentiment.contains_complaint,
         status             |-> "new",
         priority           |-> IF sentiment.sentiment = "negative" THEN "high" ELSE "normal",
         has_our_reply      |-> FALSE,
         is_done            |-> FALSE]

\* The row of save_comment_to_bigquery's INSERT
CommentRow(comment_data) ==
    [comment_id         |-> comment_data.comment_id,
     comment_text       |-> comment_data.comment_text,
     sentiment          |-> comment_data.sentiment,
     is_question        |-> SqlBool(comment_data.is_question),
     contains_complaint |-> SqlBool(comment_data.contains_complaint),
     status             |-> "new",
     is_hidden          |-> FALSE,
     is_deleted         |-> FALSE,
     priority           |-> comment_data.priority,
     has_our_reply      |-> FALSE,
     our_reply_text     |-> NULL,
     replies_json       |-> NULL,
     is_done            |-> FALSE,
     response_text      |-> NULL,
     responded_by       |-> NULL]

----------------------------------------------------------------------------
(* Webhook: the POST handler                                               *)

\* The workers that run webhook(request)
Workers == {"h1", "h2"}

\* Bounds of the model: the messaging events and changes one delivery
\* carries, over all its entries, and the rows the two tables hold
MaxRecords == 3
MaxRows == 2
\* ... and the changes of a delivery where two workers run at once
MaxRaceRecords == 1
MaxStoreRecords == 1
MaxStoreRows == 2
\* The phrases of a text given to a classifier
MaxWords == 2
\* The rows of the table the conversation list is computed from
MaxListRows == 3

\* What request.get_json() returns for a body that is a JSON document: an
\* object with the given "object" member, an object without one, an
\* instagram object whose "entry" member is a number, an array, or null
Payloads == {"instagram", "page", "user", "no_object", "entry_number", "array", "null"}

\* payload.get("object", "")
ObjectType(payload) ==
    IF payload = "no_object" THEN ""
    ELSE IF payload = "entry_number" THEN "instagram"
    ELSE payload

NoComment == [comment_id |-> ""]
NoResponse == [status |-> 0]

\* A worker between two requests.  n counts the messaging events and changes
\* the loops have taken from the payload; processed_messages and processed_comments
\* are the lengths of the two lists; saved_messages and saved_comments count
\* the INSERTs of this request that succeeded; body tells whether the request
\* body is a JSON document; object is object_type once it is assigned; errors
\* tells that the request
\* printed an "[Error] ..." or "[BigQuery] Error ..." line; printed holds the
\* lines printed before the loop.
Idle ==
    [pc |-> "idle", sig |-> "none", body |-> "none", json |-> "none",
     object |-> "none", response |-> NoResponse,
     n |-> 0,
     processed_messages |-> 0, processed_comments |-> 0,
     saved_messages |-> 0, saved_comments |-> 0, errors |-> FALSE,
     pending |-> NoComment, last_insert |-> "", printed |-> {}]

\* return text, status
Reply(s, status, text) ==
    [s EXCEPT !.pc = "done",
              !.response = [status |-> status, text |-> text, is_json |-> FALSE]]

\* An exception leaves webhook(): the framework answers 500
Escapes(s, exception) ==
    [s EXCEPT !.pc = "done",
              !.response = [status |-> 500, text |-> exception, is_json |-> FALSE]]

\* return json.dumps({...}), 200
ReplyCounts(s) ==
    [s EXCEPT !.pc = "done",
              !.response = [status |-> 200, text |-> "received", is_json |-> TRUE,
                            processed_messages |-> s.processed_messages,
                            processed_comments |-> s.processed_comments]]

Say(s, line) == [s EXCEPT !.printed = @ \cup {line}]

IsJsonDocument(data) == data # "hello"

\* What get_json does with a body that is no JSON document, were it called
\* with silent=True: it returns None
get_json_silent(data, payload) ==
    [raised |-> "", payload |-> IF IsJsonDocument(data) THEN payload ELSE "none"]

\* request.get_json(): the parsed document, or the exception of a body that
\* is no JSON document
get_json(data, payload) ==
    IF ~IsJsonDocument(data) THEN [raised |-> "BadRequest", payload |-> "none"]
    ELSE [raised |-> "", payload |-> payload]

\* webhook_payload without its `return "OK", 200` for other object types
webhook_payload_any_object(s, data, payload) ==
    LET parsed == get_json(data, payload)
    IN  IF parsed.raised # ""
        THEN Reply(Say([s EXCEPT !.json = "failed"], "[Error] JSON parsing failed"),
                   400, "Invalid JSON")
        ELSE IF parsed.payload \in {"array", "null", "none"}
        THEN Escapes([s EXCEPT !.json = "ok"], "AttributeError")
        ELSE IF parsed.payload = "entry_number"
        THEN Escapes([s EXCEPT !.json = "ok", !.object = ObjectType(parsed.payload)],
                     "TypeError")
        ELSE [s EXCEPT !.json = "ok", !.object = ObjectType(parsed.payload),
                       !.pc = "entries"]

\* webhook, POST branch, after the signature was accepted: parse the payload
\* and check the object type
webhook_payload(s, data, payload) ==
    LET parsed == get_json(data, payload)
    IN  IF parsed.raised # ""
        THEN Reply(Say([s EXCEPT !.json = "failed"], "[Error] JSON parsing failed"),
                   400, "Invalid JSON")
        ELSE IF parsed.payload \in {"array", "null", "none"}
        THEN Escapes([s EXCEPT !.json = "ok"], "AttributeError")
        ELSE LET object_type == ObjectType(parsed.payload)
                 t == [s EXCEPT !.json = "ok", !.object = object_type]
             IN  IF object_type \notin {"instagram", "page"}
                 THEN Reply(Say(t, "[Webhook] Ignored object type"), 200, "OK")
                 ELSE IF parsed.payload = "entry_number"
                 THEN Escapes(t, "TypeError")
                 ELSE [t EXCEPT !.pc = "entries"]

\* webhook_post without its `return "Invalid signature", 403`
webhook_post_unverified(signature, data, payload) ==
    LET v == verify_signature(data, signature)
        s == [Idle EXCEPT !.printed = v.printed,
                          !.body = IF IsJsonDocument(data) THEN "json" ELSE "other"]
    IN  IF v.raised # ""
        THEN Escapes([s EXCEPT !.sig = "raised"], v.raised)
        ELSE webhook_payload([s EXCEPT !.sig = IF v.ret THEN "accepted" ELSE "rejected"],
                             data, payload)

\* webhook, POST branch, from the signature check to the start of the loop
webhook_post(signature, data, payload) ==
    LET v == verify_signature(data, signature)
        s == [Idle EXCEPT !.printed = v.printed,
                          !.body = IF IsJsonDocument(data) THEN "json" ELSE "other"]
    IN  IF v.raised # ""
        THEN Escapes([s EXCEPT !.sig = "raised"], v.raised)
        ELSE IF ~v.ret
        THEN Reply(Say([s EXCEPT !.sig = "rejected"], "[Security] Invalid signature!"),
                   403, "Invalid signature")
        ELSE webhook_payload([s EXCEPT !.sig = "accepted"], data, payload)

\* A POST arrives at an idle worker
Post(h, signatures, payloads) ==
    /\ hs[h].pc = "idle"
    /\ \E signature \in signatures, data \in Bodies, payload \in payloads :
          hs' = [hs EXCEPT ![h] = webhook_post(signature, data, payload)]
    /\ UNCHANGED <<APP_SECRET, call, messages, ad_comments>>

\* for entry in entries: the next entry, an object, an object whose
\* "messaging" member is a number, or a JSON string
BeginEntry(h) ==
    /\ hs[h].pc = "entries"
    /\ \E shape \in {"object", "messaging_number", "string"} :
          hs' = [hs EXCEPT ![h] =
                    IF shape = "object"
                    THEN [@ EXCEPT !.pc = "messaging"]
                    ELSE IF shape = "messaging_number"
                    THEN Escapes(@, "TypeError")
                    ELSE Escapes(@, "AttributeError")]
    /\ UNCHANGED <<APP_SECRET, call, messages, ad_comments>>

\* The entries are exhausted: the JSON response
Return(h) ==
    /\ hs[h].pc = "entries"
    /\ hs' = [hs EXCEPT ![h] = ReplyCounts(@)]
    /\ UNCHANGED <<APP_SECRET, call, messages, ad_comments>>

\* save_to_bigquery: the INSERT succeeds (ok) or raises, which is caught
save_to_bigquery(table, message_data, ok) ==
    IF ok
    THEN [table |-> Insert(table, MessageRow(message_data)), saved |-> 1, error |-> FALSE]
    ELSE [table |-> table, saved |-> 0, error |-> TRUE]

\* The body of `for event in messaging_events`
messaging_step(s, table, event, now, ok) ==
    LET processed == process_message(event, now)
        save == save_to_bigquery(table, processed, ok)
    IN  IF processed.raised # ""
        THEN [s |-> [s EXCEPT !.n = @ + 1, !.errors = TRUE],
              table |-> table]
        ELSE [s |-> [s EXCEPT !.n = @ + 1,
                              !.processed_messages = @ + 1,
                              !.saved_messages = @ + save.saved,
                              !.errors = @ \/ save.error],
              table |-> save.table]

\* The INSERT results the model lets happen: success only below `cap` rows
InsertResults(cap) == IF TotalRows < cap THEN BOOLEAN ELSE {FALSE}

\* One messaging event of the entry
MessagingEvent(h, events, records, cap) ==
    /\ hs[h].pc = "messaging"
    /\ hs[h].n < records
    /\ \E event \in events, now \in Clock, ok \in InsertResults(cap) :
          LET r == messaging_step(hs[h], messages, event, now, ok)
          IN  /\ hs' = [hs EXCEPT ![h] = r.s]
              /\ messages' = r.table
    /\ UNCHANGED <<APP_SECRET, call, ad_comments>>

\* The messaging events of the entry are exhausted; its "changes" member is
\* a list or a number
EndMessaging(h) ==
    /\ hs[h].pc = "messaging"
    /\ \E changes \in {"list", "number"} :
          hs' = [hs EXCEPT ![h] =
                    IF changes = "list"
                    THEN [@ EXCEPT !.pc = "changes"]
                    ELSE Escapes(@, "TypeError")]
    /\ UNCHANGED <<APP_SECRET, call, messages, ad_comments>>

\* save_comment_to_bigquery up to its existence query, which succeeds (ok)
\* or raises, which is caught
comment_check(s, table, comment_data, ok) ==
    IF ~ok
    THEN [s EXCEPT !.errors = TRUE]
    ELSE IF CountRows(table, LAMBDA r : r.comment_id = comment_data.comment_id) > 0
    THEN s
    ELSE [s EXCEPT !.pc = "insert", !.pending = comment_data]

\* change_step without the test of value.verb
change_step_any_verb(s, table, change, ok) ==
    LET t == [s EXCEPT !.n = @ + 1]
    IN  IF change.shape = "string"
        THEN Escapes(s, "AttributeError")
        ELSE IF change.field \notin {"comments", "feed"}
        THEN t
        ELSE IF change.shape = "value_string"
        THEN [t EXCEPT !.errors = TRUE]
        ELSE IF change.item = "comment"
        THEN comment_check([t EXCEPT !.processed_comments = @ + 1], table,
                           process_comment(change), ok)
        ELSE t

\* The body of `for change in changes`, up to the existence query
change_step(s, table, change, ok) ==
    LET t == [s EXCEPT !.n = @ + 1]
    IN  IF change.shape = "string"
        THEN Escapes(s, "AttributeError")
        ELSE IF change.field \notin {"comments", "feed"}
        THEN t
        ELSE IF change.shape = "value_string"
        THEN [t EXCEPT !.errors = TRUE]
        ELSE IF change.item = "comment" /\ change.verb \in {"add", "created"}
        THEN comment_check([t EXCEPT !.processed_comments = @ + 1], table,
                           process_comment(change), ok)
        ELSE t

\* One change of the entry
Change(h, changes, records) ==
    /\ hs[h].pc = "changes"
    /\ hs[h].n < records
    /\ \E change \in changes, ok \in BOOLEAN :
          hs' = [hs EXCEPT ![h] = change_step(@, ad_comments, change, ok)]
    /\ UNCHANGED <<APP_SECRET, call, messages, ad_comments>>

\* comment_insert as a MERGE on comment_id: no row is added when one is there
comment_insert_if_absent(s, table, ok) ==
    IF ok
    THEN [s |-> [s EXCEPT
                    !.pc = "changes", !.pending = NoComment,
                    !.saved_comments = @ + 1,
                    !.last_insert = s.pending.comment_id],
          table |-> IF CountRows(table, LAMBDA r : r.comment_id = s.pending.comment_id) > 0
                    THEN table
                    ELSE Insert(table, CommentRow(s.pending))]
    ELSE [s |-> [s EXCEPT
                    !.pc = "changes", !.pending = NoComment, !.errors = TRUE],
          table |-> table]

\* save_comment_to_bigquery's INSERT, which succeeds (ok) or raises, which
\* is caught
comment_insert(s, table, ok) ==
    IF ok
    THEN [s |-> [s EXCEPT
                    !.pc = "changes", !.pending = NoComment,
                    !.saved_comments = @ + 1,
                    !.last_insert = s.pending.comment_id],
          table |-> Insert(table, CommentRow(s.pending))]
    ELSE [s |-> [s EXCEPT
                    !.pc = "changes", !.pending = NoComment, !.errors = TRUE],
          table |-> table]

\* The INSERT of the comment whose existence query found no row
CommentInsert(h, cap) ==
    /\ hs[h].pc = "insert"
    /\ \E ok \in InsertResults(cap) :
          LET r == comment_insert(hs[h], ad_comments, ok)
          IN  /\ hs' = [hs EXCEPT ![h] = r.s]
              /\ ad_comments' = r.table
    /\ UNCHANGED <<APP_SECRET, call, messages>>

\* The changes of the entry are exhausted
EndChanges(h) ==
    /\ hs[h].pc = "changes"
    /\ hs' = [hs EXCEPT ![h].pc = "entries"]
    /\ UNCHANGED <<APP_SECRET, call, messages, ad_comments>>

\* The response is sent; the worker waits for the next request
Finish(h) ==
    /\ hs[h].pc = "done"
    /\ hs' = [hs EXCEPT ![h] = Idle]
    /\ UNCHANGED <<APP_SECRET, call, messages, ad_comments>>

----------------------------------------------------------------------------
(* Dashboard and history jobs: the other writers of the two tables         *)
(* (columns the model leaves out: post_type, always 'ad'; responded_at,   *)
(* which is written together with responded_by)                            *)

\* st.session_state.user_kuerzel of the signed-in agent
user_kuerzel == "MS"
\* What the agent types into a reply box
AgentReplies == {"Gern"}
\* The tags the agent selects before the save button
TagChoices == {<<"VIP">>}
\* get_cached_user_info(sender_id).username: unknown, or a name
ApiUsernames == {"", "anna"}
MARKED_DONE == "[Als erledigt markiert]"

\* One comment of an ad as the Graph API lists it: replies is none, or one
\* written by our own account
ApiComments ==
    [id : {"c1"}, text : {Hallo, <<>>}, replies : {"none", "own"}]

\* The row of sync_instagram_comments' INSERT
SyncedCommentRow(comment, has_our_reply, our_reply_text, replies_json) ==
    LET sentiment == analyze_sentiment(comment.text)
    IN  [comment_id         |-> comment.id,
         comment_text       |-> comment.text,
         sentiment          |-> sentiment,
         is_question        |-> NULL,
         contains_complaint |-> NULL,
         status             |-> "new",
         is_hidden          |-> FALSE,
         is_deleted         |-> FALSE,
         priority           |-> IF sentiment = "negative" THEN "high"
                                ELSE IF sentiment = "question" THEN "medium"
                                ELSE "normal",
         has_our_reply      |-> has_our_reply,
         our_reply_text     |-> our_reply_text,
         replies_json       |-> replies_json,
         is_done            |-> FALSE,
         response_text      |-> NULL,
         responded_by       |-> NULL]

\* The body of `for comment in comments` in sync_instagram_comments: the
\* existence query, then the UPDATE of the reply columns or the INSERT.  Each
\* of the three queries may raise; the job swallows all three.
sync_comment(table, comment, check_ok, update_ok, insert_ok) ==
    LET has_our_reply  == comment.replies = "own"
        our_reply_text == IF has_our_reply THEN "Danke dir" ELSE ""
        replies_json   == IF comment.replies = "none" THEN "" ELSE "[own]"
        existing == CountRows(table, LAMBDA r : r.comment_id = comment.id)
    IN  IF comment.id = "" \/ comment.text = <<>>
        THEN table
        ELSE IF check_ok /\ existing > 0
        THEN IF update_ok
             THEN Update(table, LAMBDA r : r.comment_id = comment.id,
                         LAMBDA r : [r EXCEPT !.has_our_reply = has_our_reply,
                                              !.our_reply_text = our_reply_text,
                                              !.replies_json = replies_json])
             ELSE table
        ELSE IF insert_ok
        THEN Insert(table, SyncedCommentRow(comment, has_our_reply,
                                            our_reply_text, replies_json))
        ELSE table

SyncComment(cap) ==
    /\ \E comment \in ApiComments, check_ok \in BOOLEAN, update_ok \in BOOLEAN,
          insert_ok \in InsertResults(cap) :
          ad_comments' = sync_comment(ad_comments, comment, check_ok, update_ok, insert_ok)
    /\ UNCHANGED <<APP_SECRET, call, hs, messages>>

\* The comment list of the dashboard: WHERE is_deleted = FALSE (fewer rows
\* than the LIMIT)
DisplayedComments == {r \in DOMAIN ad_comments : ~r.is_deleted}
has_manual_response(comment) == comment.response_text \notin {NULL, ""}
is_processed(comment) ==
    comment.has_our_reply \/ has_manual_response(comment) \/ comment.is_done

\* The "Erledigt" button
done_comment(table, comment_id, ok) ==
    IF ok
    THEN Update(table, LAMBDA r : r.comment_id = comment_id,
                LAMBDA r : [r EXCEPT !.is_done = TRUE])
    ELSE table

DoneComment ==
    /\ \E comment \in DisplayedComments, ok \in BOOLEAN :
          /\ ~is_processed(comment)
          /\ ad_comments' = done_comment(ad_comments, comment.comment_id, ok)
    /\ UNCHANGED <<APP_SECRET, call, hs, messages>>

\* What the hide button would be if it ran a DELETE
hide_comment_by_delete(table, comment_id, ok) ==
    IF ok
    THEN [r \in {x \in DOMAIN table : x.comment_id # comment_id} |-> table[r]]
    ELSE table

\* The hide button
hide_comment(table, comment_id, ok) ==
    IF ok
    THEN Update(table, LAMBDA r : r.comment_id = comment_id,
                LAMBDA r : [r EXCEPT !.is_deleted = TRUE])
    ELSE table

HideComment ==
    /\ \E comment \in DisplayedComments, ok \in BOOLEAN :
          ad_comments' = hide_comment(ad_comments, comment.comment_id, ok)
    /\ UNCHANGED <<APP_SECRET, call, hs, messages>>

\* The send button of the reply dialog of a listed comment: the row is
\* written only after reply_to_comment succeeded
send_comment_reply(table, comment_id, reply_text, success, ok) ==
    IF success /\ ok
    THEN Update(table, LAMBDA r : r.comment_id = comment_id,
                LAMBDA r : [r EXCEPT !.response_text = reply_text,
                                     !.responded_by = user_kuerzel,
                                     !.has_our_reply = TRUE,
                                     !.our_reply_text = reply_text])
    ELSE table

SendCommentReply ==
    /\ \E comment \in DisplayedComments, reply_text \in AgentReplies,
          success \in BOOLEAN, ok \in BOOLEAN :
          ad_comments' = send_comment_reply(ad_comments, comment.comment_id,
                                            reply_text, success, ok)
    /\ UNCHANGED <<APP_SECRET, call, hs, messages>>

\* The save button of the reply dialog
save_comment_reply(table, comment_id, reply_text, ok) ==
    IF ok
    THEN Update(table, LAMBDA r : r.comment_id = comment_id,
                LAMBDA r : [r EXCEPT !.response_text = reply_text,
                                     !.responded_by = user_kuerzel])
    ELSE table

SaveCommentReply ==
    /\ \E comment \in DisplayedComments, reply_text \in AgentReplies, ok \in BOOLEAN :
          ad_comments' = save_comment_reply(ad_comments, comment.comment_id,
                                            reply_text, ok)
    /\ UNCHANGED <<APP_SECRET, call, hs, messages>>

\* load_chat_history: the rows of one chat; the frame is ordered by
\* received_at, rows of equal received_at in any order
load_chat_history(table, sender_id) ==
    {r \in DOMAIN table : r.sender_id = sender_id \/ r.recipient_id = sender_id}
FirstRows(rows) == {r \in rows : \A o \in rows : r.received_at <= o.received_at}
LastRows(rows) == {r \in rows : \A o \in rows : r.received_at >= o.received_at}

\* update_message: `updates` maps column names to the new values
update_message(table, message_id, updates, ok) ==
    IF ok
    THEN Update(table, LAMBDA r : r.message_id = message_id,
                LAMBDA r : [k \in DOMAIN r |->
                              IF k \in DOMAIN updates THEN updates[k] ELSE r[k]])
    ELSE table

\* save_sender_name_to_db
save_sender_name_to_db(table, sender_id, sender_name, ok) ==
    IF sender_name = "" \/ sender_id = "" \/ ~ok
    THEN table
    ELSE Update(table,
                LAMBDA r : r.sender_id = sender_id /\ r.sender_name \in {NULL, ""},
                LAMBDA r : [r EXCEPT !.sender_name = sender_name])

\* render_chat_view up to the header: a chat whose first row has no name
\* asks the API for one and stores it
SaveSenderName ==
    /\ \E sender_id \in SenderIds :
          LET chat == load_chat_history(messages, sender_id)
          IN  /\ chat # {}
              /\ \E first \in FirstRows(chat) : first.sender_name \in {NULL, ""}
              /\ \E api_username \in ApiUsernames, ok \in BOOLEAN :
                    messages' = save_sender_name_to_db(messages, sender_id,
                                                       api_username, ok)
    /\ UNCHANGED <<APP_SECRET, call, hs, ad_comments>>

\* The tag save button: update_message for every row of the chat, each call
\* on its own succeeding or not
SaveTags ==
    /\ \E sender_id \in SenderIds, selected_tags \in TagChoices :
          LET chat == load_chat_history(messages, sender_id)
          IN  /\ chat # {}
              /\ \E saved \in SUBSET {r.message_id : r \in chat} :
                    messages' = Update(messages,
                                       LAMBDA r : r.message_id \in saved,
                                       LAMBDA r : [r EXCEPT !.tags = selected_tags])
    /\ UNCHANGED <<APP_SECRET, call, hs, ad_comments>>

\* The send button writing the row whatever send_instagram_message returned
SendReply_whatever_sent(senders, replies, audit) ==
    /\ \E sender_id \in senders, reply_text \in replies,
          success \in BOOLEAN, ok \in BOOLEAN :
          LET chat == load_chat_history(messages, sender_id)
          IN  /\ chat # {}
              /\ \E last_msg \in LastRows(chat) :
                    messages' =
                        IF reply_text # ""
                        THEN update_message(messages, last_msg.message_id,
                                 [response_text |-> reply_text,
                                  responded_by |-> user_kuerzel], ok)
                        ELSE messages
              /\ call' = IF audit
                         THEN [fn |-> "send", sender_id |-> sender_id,
                               reply_text |-> reply_text,
                               success |-> reply_text # "" /\ success, ok |-> ok]
                         ELSE call
    /\ UNCHANGED <<APP_SECRET, hs, ad_comments>>

\* The send button of the chat of one of `senders`, with one of `replies` in
\* the text area: the row is written only after send_instagram_message
\* succeeded.  With `audit` the call is recorded in `call`.
SendReply(senders, replies, audit) ==
    /\ \E sender_id \in senders, reply_text \in replies,
          success \in BOOLEAN, ok \in BOOLEAN :
          LET chat == load_chat_history(messages, sender_id)
          IN  /\ chat # {}
              /\ \E last_msg \in LastRows(chat) :
                    messages' =
                        IF reply_text # "" /\ success
                        THEN update_message(messages, last_msg.message_id,
                                 [response_text |-> reply_text,
                                  responded_by |-> user_kuerzel], ok)
                        ELSE messages
              /\ call' = IF audit
                         THEN [fn |-> "send", sender_id |-> sender_id,
                               reply_text |-> reply_text,
                               success |-> reply_text # "" /\ success, ok |-> ok]
                         ELSE call
    /\ UNCHANGED <<APP_SECRET, hs, ad_comments>>

\* The "Als beantwortet markieren" button
MarkAnswered(senders, audit) ==
    /\ \E sender_id \in senders, ok \in BOOLEAN :
          LET chat == load_chat_history(messages, sender_id)
          IN  /\ chat # {}
              /\ \E last_msg \in LastRows(chat) :
                    messages' = update_message(messages, last_msg.message_id,
                                    [response_text |-> MARKED_DONE,
                                     responded_by |-> user_kuerzel], ok)
              /\ call' = IF audit
                         THEN [fn |-> "mark", sender_id |-> sender_id,
                               reply_text |-> MARKED_DONE, success |-> TRUE,
                               ok |-> ok]
                         ELSE call
    /\ UNCHANGED <<APP_SECRET, hs, ad_comments>>

\* bulk_mark_chats_as_read: `newest` is the set of rows the subquery numbers
\* 1, one per sender that has incoming rows (rows of equal timestamp are
\* numbered in any order)
bulk_mark_chats_as_read(table, newest, ok) ==
    IF ok
    THEN Update(table,
                LAMBDA r : /\ r.message_id \in {x.message_id : x \in newest}
                           /\ r.response_text \in {NULL, ""},
                LAMBDA r : [r EXCEPT !.response_text = MARKED_DONE,
                                     !.responded_by = user_kuerzel])
    ELSE table

IncomingRows(table, sender_id) ==
    {r \in DOMAIN table : r.sender_id = sender_id /\ r.direction = "incoming"}
NewestRows(rows) == {r \in rows : \A o \in rows : r.timestamp >= o.timestamp}

BulkMark(senders, audit) ==
    /\ \E sender_ids \in SUBSET senders, ok \in BOOLEAN :
          /\ sender_ids # {}
          /\ \E newest \in SUBSET DOMAIN messages :
                /\ \A r \in newest :
                      /\ r.sender_id \in sender_ids
                      /\ r \in NewestRows(IncomingRows(messages, r.sender_id))
                      /\ \A o \in newest : o.sender_id = r.sender_id => o = r
                /\ \A s \in sender_ids :
                      IncomingRows(messages, s) # {} =>
                          \E r \in newest : r.sender_id = s
                /\ messages' = bulk_mark_chats_as_read(messages, newest, ok)
          /\ call' = IF audit
                     THEN [fn |-> "bulk_mark_chats_as_read",
                           sender_ids |-> sender_ids, ok |-> ok]
                     ELSE call
    /\ UNCHANGED <<APP_SECRET, hs, ad_comments>>

\* One message of a conversation as the Graph API lists it
ApiMessages ==
    [id : {"m1"}, message : {Hallo}, from : {"customer", "own"},
     created_time : Clock, story : BOOLEAN]

\* The row both history jobs insert; load_history names no direction column
HistoryRow(msg, sender_id, sender_name, direction) ==
    [message_id     |-> msg.id,
     sender_id      |-> IF msg.from = "own" THEN OWN_IG_ID ELSE sender_id,
     sender_name    |-> sender_name,
     recipient_id   |-> IF msg.from = "own" THEN sender_id ELSE OWN_IG_ID,
     timestamp      |-> msg.created_time,
     received_at    |-> msg.created_time,
     message_text   |-> msg.message,
     is_story_reply |-> FALSE,
     tags           |-> <<>>,
     priority       |-> "normal",
     status         |-> "synced",
     direction      |-> direction,
     response_text  |-> NULL,
     responded_by   |-> NULL]

\* The body of `for msg in messages` in sync_conversation_history (story
\* reactions carry no text and are skipped; here every message has text)
sync_history_message(table, msg, sender_id, check_ok, insert_ok) ==
    LET existing == CountRows(table, LAMBDA r : r.message_id = msg.id)
        from_username == IF msg.from = "own" THEN "lilimaus_de" ELSE "anna"
    IN  IF msg.id = "" THEN table
        ELSE IF msg.message = <<>> /\ msg.story THEN table
        ELSE IF check_ok /\ existing > 0 THEN table
        ELSE IF insert_ok
        THEN Insert(table, HistoryRow(msg, sender_id, from_username,
                        IF msg.from = "own" THEN "outgoing" ELSE "incoming"))
        ELSE table

SyncHistoryMessage(cap) ==
    /\ \E msg \in ApiMessages, sender_id \in SenderIds, check_ok \in BOOLEAN,
          insert_ok \in InsertResults(cap) :
          messages' = sync_history_message(messages, msg, sender_id, check_ok, insert_ok)
    /\ UNCHANGED <<APP_SECRET, call, hs, ad_comments>>

\* load_history.save_message (every listed message is newer than SINCE_DATE)
save_message(table, msg, sender_id, check_ok, insert_ok) ==
    LET existing == CountRows(table, LAMBDA r : r.message_id = msg.id)
        actual_sender_name == IF msg.from = "own" THEN "lilimaus_de" ELSE "anna"
    IN  IF msg.id = "" THEN table
        ELSE IF check_ok /\ existing > 0 THEN table
        ELSE IF insert_ok
        THEN Insert(table, HistoryRow(msg, sender_id, actual_sender_name, NULL))
        ELSE table

LoadHistoryMessage(cap) ==
    /\ \E msg \in ApiMessages, sender_id \in SenderIds, check_ok \in BOOLEAN,
          insert_ok \in InsertResults(cap) :
          messages' = save_message(messages, msg, sender_id, check_ok, insert_ok)
    /\ UNCHANGED <<APP_SECRET, call, hs, ad_comments>>

----------------------------------------------------------------------------
(* Specifications                                                          *)

NoCall == [fn |-> "none"]

\* The deployed function, its tables empty, one worker taking one request
\* after the other
Init ==
    /\ APP_SECRET \in {<<>>, <<"s">>}
    /\ call = NoCall
    /\ hs = [h \in Workers |-> Idle]
    /\ messages = EmptyBag
    /\ ad_comments = EmptyBag

Next ==
    \E h \in {"h1"} :
        \/ Post(h, Signatures, Payloads)
        \/ BeginEntry(h)
        \/ MessagingEvent(h, MessagingEvents, MaxRecords, MaxRows)
        \/ EndMessaging(h)
        \/ Change(h, Changes, MaxRecords)
        \/ CommentInsert(h, MaxRows)
        \/ EndChanges(h)
        \/ Return(h)
        \/ Finish(h)

Spec == Init /\ [][Next]_vars

\* Two workers at once, each handling one delivery, which carries feed
\* changes only
NextRace ==
    \E h \in Workers :
        \/ Post(h, Signatures, Payloads)
        \/ BeginEntry(h)
        \/ EndMessaging(h)
        \/ Change(h, Changes, MaxRaceRecords)
        \/ CommentInsert(h, MaxRows)
        \/ EndChanges(h)
        \/ Return(h)

SpecRace == Init /\ [][NextRace]_vars

\* A query parameter that is absent: request.args.get returns None
None == "<None>"
\* main.VERIFY_TOKEN, the default of WEBHOOK_VERIFY_TOKEN
VERIFY_TOKEN == "lilimaus_webhook_2024_secure"

\* The GET branch with the test of hub.mode left out
webhook_get_any_mode(mode, token, challenge) ==
    IF token = VERIFY_TOKEN
    THEN IF challenge = None
         THEN [status |-> 500, text |-> "TypeError"]
         ELSE [status |-> 200, text |-> challenge]
    ELSE [status |-> 403, text |-> "Verification failed"]

\* webhook, GET branch: the response.  `return None, 200` is no response the
\* framework can send: it raises TypeError and answers 500.
webhook_get(mode, token, challenge) ==
    IF mode = "subscribe" /\ token = VERIFY_TOKEN
    THEN IF challenge = None
         THEN [status |-> 500, text |-> "TypeError"]
         ELSE [status |-> 200, text |-> challenge]
    ELSE [status |-> 403, text |-> "Verification failed"]

\* One call of verify_signature, for every secret, body and header, or one
\* GET request, for every combination of the three query parameters
\* hub.mode, hub.verify_token and hub.challenge
InitVerify ==
    /\ APP_SECRET \in AppSecrets
    /\ \/ \E payload \in Bodies, signature \in Signatures :
             call = [fn |-> "verify_signature", payload |-> payload,
                     signature |-> signature, done |-> FALSE,
                     raised |-> "", ret |-> FALSE, printed |-> {}]
       \/ \E mode \in {None, "subscribe", "unsubscribe"},
             token \in {None, VERIFY_TOKEN, "lilimaus", ""},
             challenge \in {None, "1158201444", ""} :
             call = [fn |-> "webhook_get", mode |-> mode, token |-> token,
                     challenge |-> challenge, done |-> FALSE,
                     response |-> NoResponse]
    /\ hs = [h \in Workers |-> Idle]
    /\ messages = EmptyBag
    /\ ad_comments = EmptyBag

VerifyCall ==
    /\ call.fn = "verify_signature"
    /\ ~call.done
    /\ LET v == verify_signature(call.payload, call.signature)
       IN  call' = [call EXCEPT !.done = TRUE, !.raised = v.raised,
                                !.ret = v.ret, !.printed = v.printed]
    /\ UNCHANGED <<APP_SECRET, hs, messages, ad_comments>>

GetCall ==
    /\ call.fn = "webhook_get"
    /\ ~call.done
    /\ call' = [call EXCEPT !.done = TRUE,
                            !.response = webhook_get(call.mode, call.token,
                                                     call.challenge)]
    /\ UNCHANGED <<APP_SECRET, hs, messages, ad_comments>>

SpecVerify == InitVerify /\ [][VerifyCall \/ GetCall]_vars

\* Phrases of customers' messages and comments
ProduktFrage == <<"I", "s", "t", " ", "d", "a", "s", " ", "P", "r", "o", "d", "u", "k", "t", " ", "w", "i", "e", "d", "e", "r", " ", "v", "e", "r", "f", "U+00FC", "g", "b", "a", "r", "?">>
KOOPERATION == <<"K", "O", "O", "P", "E", "R", "A", "T", "I", "O", "N">>
Fragezeichen == <<"?">>
Wann == <<"W", "a", "n", "n">>
Problem == <<"P", "r", "o", "b", "l", "e", "m">>
wo == <<"w", "o">>
Kostet == <<"K", "o", "s", "t", "e", "t">>
Gut == <<"G", "u", "t">>
Phrases ==
    {ProduktFrage, KOOPERATION, Fragezeichen, Wann, Problem, wo, Kostet, Gut,
     Hallo, Danke, Betrug}

\* The texts of at most n phrases, joined by blanks; the empty text stands
\* also for a message without "text" member, which .get("text", "") makes ""
RECURSIVE TextsOf(_)
TextsOf(n) ==
    IF n = 0 THEN {<<>>}
    ELSE LET shorter == TextsOf(n - 1)
         IN  shorter \cup {IF t = <<>> THEN w ELSE t \o <<" ">> \o w :
                              t \in shorter, w \in Phrases}

ClassifierTexts == TextsOf(MaxWords)

\* One call of a classifier, for every text: auto_tag_message,
\* process_message (for a story reply and for a plain message),
\* analyze_comment_sentiment, analyze_sentiment
InitClassify ==
    /\ APP_SECRET = <<>>
    /\ \E text \in ClassifierTexts :
          \/ call = [fn |-> "auto_tag_message", text |-> text, done |-> FALSE]
          \/ \E story \in BOOLEAN :
                call = [fn |-> "process_message", text |-> text, story |-> story,
                        done |-> FALSE]
          \/ call = [fn |-> "analyze_comment_sentiment", text |-> text, done |-> FALSE]
          \/ call = [fn |-> "analyze_sentiment", text |-> text, done |-> FALSE]
    /\ hs = [h \in Workers |-> Idle]
    /\ messages = EmptyBag
    /\ ad_comments = EmptyBag

TagCall ==
    /\ call.fn = "auto_tag_message" /\ ~call.done
    /\ call' = [fn |-> call.fn, text |-> call.text, done |-> TRUE,
                result |-> auto_tag_message(call.text)]
    /\ UNCHANGED <<APP_SECRET, hs, messages, ad_comments>>

ProcessMessageCall ==
    /\ call.fn = "process_message" /\ ~call.done
    /\ \E now \in Clock :
          call' = [fn |-> call.fn, text |-> call.text, story |-> call.story,
                   done |-> TRUE,
                   result |-> process_message(
                                 [shape |-> "object", mid |-> "m1", sender |-> "u1",
                                  timestamp |-> 1, text |-> call.text,
                                  story |-> call.story], now)]
    /\ UNCHANGED <<APP_SECRET, hs, messages, ad_comments>>

CommentSentimentCall ==
    /\ call.fn = "analyze_comment_sentiment" /\ ~call.done
    /\ call' = [fn |-> call.fn, text |-> call.text, done |-> TRUE,
                result |-> analyze_comment_sentiment(call.text)]
    /\ UNCHANGED <<APP_SECRET, hs, messages, ad_comments>>

SentimentCall ==
    /\ call.fn = "analyze_sentiment" /\ ~call.done
    /\ call' = [fn |-> call.fn, text |-> call.text, done |-> TRUE,
                result |-> analyze_sentiment(call.text)]
    /\ UNCHANGED <<APP_SECRET, hs, messages, ad_comments>>

SpecClassify ==
    InitClassify
    /\ [][TagCall \/ ProcessMessageCall \/ CommentSentimentCall \/ SentimentCall]_vars

\* The tables with all their writers: one webhook worker, the dashboard of
\* one agent, the comment sync and the two history jobs
\* What requests.post does: it raises (timeout, no connection), or returns
\* a response with a status code and a body: a JSON object with an "error"
\* member, a JSON object with "success": true or false, a JSON array, or
\* text that is no JSON
VendorOutcomes ==
    {[kind |-> "exception"]}
    \cup [kind : {"response"}, status_code : {200, 400, 500},
          body : {"error_object", "success_true", "success_false", "array", "not_json"}]

\* return ok, detail
Returns(ok, detail) == [raised |-> "", ok |-> ok, detail |-> detail]
Raises(exception) == [raised |-> exception, ok |-> FALSE, detail |-> ""]

\* try: ... except Exception as e: return False, f"Fehler: {str(e)}"
ExceptFehler(result) ==
    IF result.raised # "" THEN Returns(FALSE, "Fehler: " \o result.raised) ELSE result

\* The else branch of the three calls: response.json(), then
\* error_data.get("error", {}).get("message", "Unbekannter Fehler")
ApiFehler(outcome) ==
    IF outcome.body = "not_json" THEN Raises("JSONDecodeError")
    ELSE IF outcome.body = "array" THEN Raises("AttributeError")
    ELSE IF outcome.body = "error_object" THEN Returns(FALSE, "API Fehler: message")
    ELSE Returns(FALSE, "API Fehler: Unbekannter Fehler")

\* send_instagram_message with its try block left open: no except clause
send_instagram_message_unguarded(token, outcome) ==
    IF token = "" THEN Returns(FALSE, "Kein Instagram Access Token konfiguriert")
    ELSE IF outcome.kind = "exception" THEN Raises("RequestException")
    ELSE IF outcome.status_code = 200 THEN Returns(TRUE, "Nachricht gesendet")
    ELSE ApiFehler(outcome)

\* send_instagram_message
send_instagram_message(token, outcome) ==
    IF token = "" THEN Returns(FALSE, "Kein Instagram Access Token konfiguriert")
    ELSE ExceptFehler(
            IF outcome.kind = "exception" THEN Raises("RequestException")
            ELSE IF outcome.status_code = 200 THEN Returns(TRUE, "Nachricht gesendet")
            ELSE ApiFehler(outcome))

\* reply_to_comment
reply_to_comment(token, outcome) ==
    IF token = "" THEN Returns(FALSE, "Kein Page Access Token konfiguriert")
    ELSE ExceptFehler(
            IF outcome.kind = "exception" THEN Raises("RequestException")
            ELSE IF outcome.status_code = 200 THEN Returns(TRUE, "Antwort gesendet")
            ELSE ApiFehler(outcome))

\* like_comment: a 200 response counts only with "success": true in its body
like_comment(token, outcome) ==
    IF token = "" THEN Returns(FALSE, "Kein Page Access Token konfiguriert")
    ELSE ExceptFehler(
            IF outcome.kind = "exception" THEN Raises("RequestException")
            ELSE IF outcome.status_code = 200
            THEN IF outcome.body = "not_json" THEN Raises("JSONDecodeError")
                 ELSE IF outcome.body = "array" THEN Raises("AttributeError")
                 ELSE IF outcome.body = "success_true"
                 THEN Returns(TRUE, "Kommentar geliked")
                 ELSE Returns(FALSE, "Like nicht erfolgreich")
            ELSE ApiFehler(outcome))

\* One call of an outbound vendor call, for every outcome of the HTTP request
\* and every token: get_instagram_access_token() / get_page_access_token()
\* return a token, or ''
InitOutbound ==
    /\ APP_SECRET = <<>>
    /\ \E fn \in {"send_instagram_message", "reply_to_comment", "like_comment"},
          token \in {"", "IGAAT"}, outcome \in VendorOutcomes :
          call = [fn |-> fn, token |-> token, outcome |-> outcome, done |-> FALSE,
                  result |-> Returns(FALSE, "")]
    /\ hs = [h \in Workers |-> Idle]
    /\ messages = EmptyBag
    /\ ad_comments = EmptyBag

SendCall ==
    /\ call.fn = "send_instagram_message" /\ ~call.done
    /\ call' = [call EXCEPT !.done = TRUE,
                            !.result = send_instagram_message(call.token, call.outcome)]
    /\ UNCHANGED <<APP_SECRET, hs, messages, ad_comments>>

ReplyCall ==
    /\ call.fn = "reply_to_comment" /\ ~call.done
    /\ call' = [call EXCEPT !.done = TRUE,
                            !.result = reply_to_comment(call.token, call.outcome)]
    /\ UNCHANGED <<APP_SECRET, hs, messages, ad_comments>>

LikeCall ==
    /\ call.fn = "like_comment" /\ ~call.done
    /\ call' = [call EXCEPT !.done = TRUE,
                            !.result = like_comment(call.token, call.outcome)]
    /\ UNCHANGED <<APP_SECRET, hs, messages, ad_comments>>

SpecOutbound == InitOutbound /\ [][SendCall \/ ReplyCall \/ LikeCall]_vars

\* The customers and the times of the rows the conversation list is
\* computed from
ListCustomers == {"u1", "u2"}
ListClock == {1, 2}

\* Rows of the messages table: a customer's message as the webhook stored
\* it, and a message of the customer or of the own account as
\* sync_conversation_history stored it; a customer's message unanswered or
\* marked as answered by an agent.  A message id is the tuple of what tells
\* two messages apart.
ListRows ==
    {[MessageRow(process_message(
          [shape |-> "object", mid |-> <<c, now, "dm">>, sender |-> c,
           timestamp |-> now, text |-> Hallo, story |-> FALSE], now))
        EXCEPT !.response_text = response[1], !.responded_by = response[2]] :
        c \in ListCustomers, now \in ListClock,
        response \in {<<NULL, NULL>>, <<MARKED_DONE, user_kuerzel>>}}
    \cup
    {HistoryRow([id |-> <<c, t, "own">>, message |-> Hallo, from |-> "own",
                 created_time |-> t, story |-> FALSE], c, "lilimaus_de", "outgoing") :
        c \in ListCustomers, t \in ListClock}
    \cup
    {[HistoryRow([id |-> <<c, t, "customer">>, message |-> Hallo, from |-> "customer",
                  created_time |-> t, story |-> FALSE], c, "anna", "incoming")
        EXCEPT !.response_text = response[1], !.responded_by = response[2]] :
        c \in ListCustomers, t \in ListClock,
        response \in {<<NULL, NULL>>, <<MARKED_DONE, user_kuerzel>>}}

\* The tables of at most MaxListRows of these rows, no two of one message
ListTables ==
    {SetToBag(rows) : rows \in
        {R \in SUBSET ListRows :
            /\ Cardinality(R) <= MaxListRows
            /\ Cardinality({r.message_id : r \in R}) = Cardinality(R)}}

\* CASE WHEN sender_id = own_id THEN recipient_id ELSE sender_id END
customer_id(r) == IF r.sender_id = OWN_IG_ID THEN r.recipient_id ELSE r.sender_id

\* CTE conversation_messages (no id of the model starts with demo_ or test_)
conversation_messages(table) ==
    {r \in DOMAIN table : r.sender_id # OWN_IG_ID \/ r.recipient_id # OWN_IG_ID}

\* The customers the final SELECT lists
ListedCustomers(table) ==
    {customer_id(r) : r \in conversation_messages(table)} \ {NULL, ""}

\* CTE latest_activity: MAX(received_at) of the customer's rows
last_activity_at(table, c) ==
    LET times == {r.received_at : r \in {x \in conversation_messages(table) :
                                            customer_id(x) = c}}
    IN  CHOOSE t \in times : \A o \in times : t >= o

\* CTE latest_incoming with rn = 1: the newest rows of the customer whose
\* direction is 'incoming' or NULL (of rows of equal received_at any is
\* numbered 1)
latest_incoming(table, c) ==
    LET rows == {r \in conversation_messages(table) :
                    customer_id(r) = c /\ r.direction \in {"incoming", NULL}}
    IN  {r \in rows : \A o \in rows : r.received_at >= o.received_at}

\* One row of the final SELECT; li is the joined row of latest_incoming, or
\* NoIncoming when the LEFT JOIN finds none
NoIncoming == [response_text |-> NULL, tags |-> <<>>, message_text |-> <<>>,
               sender_name |-> NULL]
ConversationRow(table, c, li) ==
    [sender_id       |-> c,
     sender_name     |-> IF li.sender_name = NULL THEN "" ELSE li.sender_name,
     last_message_at |-> last_activity_at(table, c),
     has_unanswered  |-> IF li.response_text \in {NULL, ""} THEN 1 ELSE 0,
     tags            |-> li.tags,
     last_message    |-> li.message_text]

ConversationRows(table) ==
    {ConversationRow(table, c, li) :
        <<c, li>> \in {<<c, li>> \in ListedCustomers(table)
                                      \X (DOMAIN table \cup {NoIncoming}) :
                          IF latest_incoming(table, c) = {}
                          THEN li = NoIncoming
                          ELSE li \in latest_incoming(table, c)}}

\* An ordering of the list by last_message_at alone
OrderedByActivityOnly(a, b) == a.last_message_at >= b.last_message_at

\* ORDER BY has_unanswered DESC, last_message_at DESC: a may stand before b
OrderedBy(a, b) ==
    \/ a.has_unanswered > b.has_unanswered
    \/ a.has_unanswered = b.has_unanswered /\ a.last_message_at >= b.last_message_at

\* The frames load_conversations may return.  Each filter appends a
\* condition on the alias lm, which the query does not define: the query
\* fails, as it does when BigQuery fails (~ok), and the frame is empty.
load_conversations(table, filter_type, filter_tags_str, ok) ==
    IF filter_type = "unbeantwortet" \/ filter_tags_str # "" \/ ~ok
    THEN {<<>>}
    ELSE LET rows == ConversationRows(table)
             n == Cardinality(ListedCustomers(table))
         IN  {frame \in [1..n -> rows] :
                /\ \A i \in 1..n, j \in 1..n :
                      i # j => frame[i].sender_id # frame[j].sender_id
                /\ \A i \in 1..n, j \in 1..n :
                      i < j => OrderedBy(frame[i], frame[j])}

\* One call of load_conversations, for every table of at most MaxListRows
\* rows
InitList ==
    /\ APP_SECRET = <<>>
    /\ messages \in ListTables
    /\ \E filter_type \in {"all", "unbeantwortet"}, filter_tags_str \in {"", "Kundenservice"} :
          call = [fn |-> "load_conversations", filter_type |-> filter_type,
                  filter_tags_str |-> filter_tags_str, done |-> FALSE,
                  ok |-> FALSE, frame |-> <<>>]
    /\ hs = [h \in Workers |-> Idle]
    /\ ad_comments = EmptyBag

LoadConversations ==
    /\ call.fn = "load_conversations" /\ ~call.done
    /\ \E ok \in BOOLEAN :
          \E frame \in load_conversations(messages, call.filter_type,
                                          call.filter_tags_str, ok) :
             call' = [call EXCEPT !.done = TRUE, !.ok = ok, !.frame = frame]
    /\ UNCHANGED <<APP_SECRET, hs, messages, ad_comments>>

SpecList == InitList /\ [][LoadConversations]_vars

\* The chat list and the chat view of the dashboard over the tables of
\* ListTables: the bulk action of the list, and the two buttons of the chat
\* view, the text area empty or not
InitChat ==
    /\ APP_SECRET = <<>>
    /\ messages \in ListTables
    /\ call = NoCall
    /\ hs = [h \in Workers |-> Idle]
    /\ ad_comments = EmptyBag

SpecChat ==
    InitChat
    /\ [][\/ BulkMark(ListCustomers, TRUE)
          \/ SendReply(ListCustomers, {"", "Gern"}, TRUE)
          \/ MarkAnswered(ListCustomers, TRUE)]_vars

----------------------------------------------------------------------------
(* Dashboard login                                                         *)

\* The first two of the five TEAM_MEMBERS, in the order of the dict
TEAM_MEMBERS == <<"AS", "MS">>

\* get_user_passwords: the members whose USER_<Kuerzel> secret is set and not
\* empty, with it (None: the secret is not configured)
get_user_passwords(secrets) ==
    SelectSeq([i \in 1..Len(TEAM_MEMBERS) |->
                  [kuerzel |-> TEAM_MEMBERS[i], pwd |-> secrets.USER[i]]],
              LAMBDA u : u.pwd \notin {None, ""})

\* The body of `if st.button("Login")` of check_password: authenticated_user
authenticate(secrets, password) ==
    LET matching == SelectSeq(get_user_passwords(secrets), LAMBDA u : password = u.pwd)
        app_password == IF secrets.APP_PASSWORD = None THEN "" ELSE secrets.APP_PASSWORD
    IN  IF matching # <<>> THEN matching[1].kuerzel
        ELSE IF password = app_password THEN "MS"
        ELSE None

\* check_password's first test: the session is signed in
check_password(session) == session.authenticated /\ session.user_kuerzel # None

\* A browser session in front of the dashboard, for every configuration of
\* the three secrets: not configured, empty, or a password
InitLogin ==
    /\ APP_SECRET = <<>>
    /\ \E user \in [1..Len(TEAM_MEMBERS) -> {None, "", "geheim"}],
          app \in {None, "", "alt"} :
          call = [fn |-> "dashboard",
                  secrets |-> [USER |-> user, APP_PASSWORD |-> app],
                  authenticated |-> FALSE, user_kuerzel |-> None,
                  password |-> None, served |-> FALSE]
    /\ hs = [h \in Workers |-> Idle]
    /\ messages = EmptyBag
    /\ ad_comments = EmptyBag

\* A run of the script with the login button pressed: the form is shown only
\* to a session that is not signed in, and the run ends in st.rerun() or
\* st.stop()
Login ==
    /\ call.fn = "dashboard" /\ ~check_password(call)
    /\ \E password \in {"", "geheim", "alt", "falsch"} :
          LET authenticated_user == authenticate(call.secrets, password)
          IN  call' = IF authenticated_user # None
                      THEN [call EXCEPT !.authenticated = TRUE,
                                        !.user_kuerzel = authenticated_user,
                                        !.password = password, !.served = FALSE]
                      ELSE [call EXCEPT !.password = password, !.served = FALSE]
    /\ UNCHANGED <<APP_SECRET, hs, messages, ad_comments>>

\* A run of the script with no button pressed: main() serves the dashboard
\* when check_password() returned True, else st.stop()
View ==
    /\ call.fn = "dashboard"
    /\ call' = [call EXCEPT !.served = check_password(call)]
    /\ UNCHANGED <<APP_SECRET, hs, messages, ad_comments>>

\* The logout button of main()
Logout ==
    /\ call.fn = "dashboard" /\ check_password(call)
    /\ call' = [call EXCEPT !.authenticated = FALSE, !.user_kuerzel = None,
                            !.served = FALSE]
    /\ UNCHANGED <<APP_SECRET, hs, messages, ad_comments>>

SpecLogin == InitLogin /\ [][Login \/ View \/ Logout]_vars

----------------------------------------------------------------------------
(* Token refresh: the Cloud Function and the command line script           *)

\* The token stored before the refresh
CurrentToken == "IGOLD"

\* The Cloud Function with the new version stored before the response is
\* looked at
refresh_token_store_first(versions, read_ok, result, store_ok) ==
    LET failed == [versions |-> versions, success |-> FALSE, status |-> 500]
    IN  IF ~read_ok \/ result.kind = "raises" THEN failed
        ELSE IF store_ok
        THEN [versions |-> Append(versions,
                              IF result.kind = "token" THEN result.access_token ELSE ""),
              success |-> result.kind = "token",
              status |-> IF result.kind = "token" THEN 200 ELSE 500]
        ELSE failed

\* refresh_token(request): read_ok, store_ok tell whether get_current_token
\* and store_new_token return or raise; result is what
\* refresh_instagram_token returns, or that it raises.  Every exception is
\* caught by the except branch.
refresh_token(versions, read_ok, result, store_ok) ==
    LET failed == [versions |-> versions, success |-> FALSE, status |-> 500]
    IN  IF ~read_ok \/ result.kind = "raises" THEN failed
        ELSE IF result.kind = "token"
        THEN IF result.expires_in = "string" \/ ~store_ok
             THEN failed
             ELSE [versions |-> Append(versions, result.access_token),
                   success |-> TRUE, status |-> 200]
        ELSE failed

\* refresh_tokens.main(): exit is the exit code of the process, which is 1
\* also when an exception leaves main (raised names it)
main(versions, read_ok, result, store_ok) ==
    LET leaves(exception) == [versions |-> versions, exit |-> 1, raised |-> exception]
    IN  IF ~read_ok THEN leaves("GoogleAPICallError")
        ELSE IF result.kind = "raises" THEN leaves("RequestException")
        ELSE IF result.kind = "token"
        THEN IF result.expires_in = "string" THEN leaves("TypeError")
             ELSE IF ~store_ok THEN leaves("GoogleAPICallError")
             ELSE [versions |-> Append(versions, result.access_token),
                   exit |-> 0, raised |-> ""]
        ELSE IF result.kind \in {"error_string", "array"} THEN leaves("AttributeError")
        ELSE [versions |-> versions, exit |-> 1, raised |-> ""]

\* One run of the refresh, for every outcome of its three calls.  The
\* vendor's response is a JSON object with access_token (expires_in a
\* number, missing, or a string), a JSON object with an error object, with
\* an error string or with neither, or a JSON array; or the request or the
\* parsing of the body raises.
InitRefresh ==
    /\ APP_SECRET = <<>>
    /\ \E fn \in {"refresh_token", "main"}, read_ok \in BOOLEAN, store_ok \in BOOLEAN,
          result \in [kind : {"token"}, access_token : {"IGNEW", "IGNEU"},
                      expires_in : {"number", "missing", "string"}]
                     \cup [kind : {"error_object", "error_string", "empty_object",
                                   "array", "raises"}] :
          call = [fn |-> fn, read_ok |-> read_ok, result |-> result,
                  store_ok |-> store_ok, done |-> FALSE,
                  versions |-> <<CurrentToken>>,
                  success |-> FALSE, status |-> 0, exit |-> 0, raised |-> ""]
    /\ hs = [h \in Workers |-> Idle]
    /\ messages = EmptyBag
    /\ ad_comments = EmptyBag

RefreshCall ==
    /\ call.fn = "refresh_token" /\ ~call.done
    /\ LET r == refresh_token(call.versions, call.read_ok, call.result, call.store_ok)
       IN  call' = [call EXCEPT !.done = TRUE, !.versions = r.versions,
                                !.success = r.success, !.status = r.status]
    /\ UNCHANGED <<APP_SECRET, hs, messages, ad_comments>>

MainCall ==
    /\ call.fn = "main" /\ ~call.done
    /\ LET r == main(call.versions, call.read_ok, call.result, call.store_ok)
       IN  call' = [call EXCEPT !.done = TRUE, !.versions = r.versions,
                                !.exit = r.exit, !.raised = r.raised]
    /\ UNCHANGED <<APP_SECRET, hs, messages, ad_comments>>

SpecRefresh == InitRefresh /\ [][RefreshCall \/ MainCall]_vars

\* The deliveries of this specification carry one kind of message and of
\* comment
StoreEvents ==
    {e \in MessagingEvents :
        e.shape = "object" => (e.mid = "m1" /\ e.text = Hallo /\ ~e.story)}
StoreChanges ==
    {c \in Changes :
        c.shape = "object" =>
            (IsNewComment(c) /\ c.field = "comments" /\ c.verb = "add"
             /\ c.comment_id = "c1" /\ c.text = Hallo)}

\* (no app secret is configured, and the deliveries carry no signature
\* header; they are instagram objects, or of an object type that is ignored)

InitStore ==
    /\ APP_SECRET = <<>>
    /\ call = NoCall
    /\ hs = [h \in Workers |-> Idle]
    /\ messages = EmptyBag
    /\ ad_comments = EmptyBag

NextStore ==
    \/ \E h \in {"h1"} :
          \/ Post(h, {<<>>}, {"instagram", "user"})
          \/ BeginEntry(h)
          \/ MessagingEvent(h, StoreEvents, MaxStoreRecords, MaxStoreRows)
          \/ EndMessaging(h)
          \/ Change(h, StoreChanges, MaxStoreRecords)
          \/ CommentInsert(h, MaxStoreRows)
          \/ EndChanges(h)
          \/ Return(h)
          \/ Finish(h)
    \/ SyncComment(MaxStoreRows)
    \/ DoneComment
    \/ HideComment
    \/ SendCommentReply
    \/ SaveCommentReply
    \/ SaveSenderName
    \/ SaveTags
    \/ SendReply(SenderIds, AgentReplies, FALSE)
    \/ MarkAnswered(SenderIds, FALSE)
    \/ BulkMark(SenderIds, FALSE)
    \/ SyncHistoryMessage(MaxStoreRows)
    \/ LoadHistoryMessage(MaxStoreRows)

SpecStore == InitStore /\ [][NextStore]_vars

----------------------------------------------------------------------------
(* Claims                                                                  *)

\* The header that verify_signature is to accept for the call's body
ExpectedHeader == Sha256Prefix \o HmacHex(APP_SECRET, call.payload)

\* C1 (as claimed): with a secret configured, verify_signature returns True
\* for the header 'sha256=' + HMAC-SHA256(secret, body) and returns False
\* for every other header.
C1_AcceptsExactlyTheMac ==
    (call.fn = "verify_signature" /\ call.done /\ APP_SECRET # <<>>)
        => /\ call.raised = ""
           /\ call.ret = (call.signature = ExpectedHeader)

\* Nothing of the request was classified, counted or written
NothingProcessed(h) ==
    /\ hs[h].n = 0
    /\ hs[h].processed_messages = 0 /\ hs[h].processed_comments = 0
    /\ hs[h].saved_messages = 0 /\ hs[h].saved_comments = 0
    /\ hs[h].pending = NoComment

\* C2: a POST whose signature verify_signature rejects is answered 403 and
\* nothing of its body is classified, counted or written.
C2_RejectedIs403 ==
    \A h \in Workers :
        hs[h].sig = "rejected"
            => /\ hs[h].pc = "done"
               /\ hs[h].response.status = 403
               /\ hs[h].json = "none"
               /\ NothingProcessed(h)

C2_Witness ==
    \E h \in Workers :
        /\ APP_SECRET # <<>>
        /\ hs[h].sig = "rejected"
        /\ hs[h].response.status = 403

\* C3: with no secret configured verify_signature returns True for every
\* header, also a missing one or one with non-ASCII characters, and prints
\* the warning each time.
C3_BypassAcceptsAndWarns ==
    (call.fn = "verify_signature" /\ call.done /\ APP_SECRET = <<>>)
        => /\ call.raised = ""
           /\ call.ret
           /\ WARNING_NO_SECRET \in call.printed

C3_Witness ==
    /\ call.fn = "verify_signature" /\ call.done /\ APP_SECRET = <<>>
    /\ call.signature = <<>>
    /\ call.ret
    /\ WARNING_NO_SECRET \in call.printed

\* C4 (as claimed): however often a message_id is submitted to
\* save_to_bigquery, the messages table holds one row with it.
C4_OneRowPerMessageId ==
    \A id \in MessageIds :
        CountRows(messages, LAMBDA r : r.message_id = id) <= 1

\* C5: when two workers handling deliveries with the same comment_id have
\* both run the existence query before either inserted, and both INSERTs
\* succeed, ad_comments holds two rows with that comment_id.  (last_insert is
\* the comment_id of the worker's last successful INSERT, which it ran after
\* its existence query found no row.)
C5_RaceWritesTwoRows ==
    \A h1 \in Workers, h2 \in Workers :
        (h1 # h2 /\ hs[h1].last_insert # "" /\ hs[h1].last_insert = hs[h2].last_insert)
            => CountRows(ad_comments,
                         LAMBDA r : r.comment_id = hs[h1].last_insert) >= 2

C5_Witness ==
    \E id \in CommentIds :
        /\ \A h \in Workers : hs[h].last_insert = id /\ hs[h].saved_comments = 1
        /\ CountRows(ad_comments, LAMBDA r : r.comment_id = id) = 2

\* The table without the named columns
WithoutColumns(table, columns) ==
    Update(table, LAMBDA r : TRUE,
           LAMBDA r : [k \in (DOMAIN r) \ columns |-> r[k]])

\* C6 (as claimed): a step of sync_instagram_comments for a comment whose
\* comment_id is stored adds no row to ad_comments and leaves every column
\* but has_our_reply, our_reply_text and replies_json as it was, whether or
\* not its queries succeed.
C6_SyncOfStoredCommentKeepsRows ==
    [][ \A comment \in ApiComments, check_ok \in BOOLEAN, update_ok \in BOOLEAN,
           insert_ok \in BOOLEAN :
           ( /\ comment.text # <<>>
             /\ CountRows(ad_comments, LAMBDA r : r.comment_id = comment.id) > 0
             /\ ad_comments' = sync_comment(ad_comments, comment, check_ok,
                                            update_ok, insert_ok)
             /\ UNCHANGED <<hs, messages>> )
           => /\ BagCardinality(ad_comments') = BagCardinality(ad_comments)
              /\ WithoutColumns(ad_comments',
                                {"has_our_reply", "our_reply_text", "replies_json"})
                 = WithoutColumns(ad_comments,
                                  {"has_our_reply", "our_reply_text", "replies_json"})
      ]_vars

\* C7: no step of the webhook, of the sync and history jobs or of the
\* dashboard lowers the number of rows any message_id or comment_id has, so
\* the sets of stored ids never shrink; and a step that hides comments
\* (more rows have is_deleted set after it than before) leaves every other
\* column of every row as it was.
C7_RowsAreNeverRemoved ==
    [][ /\ \A id \in MessageIds :
              CountRows(messages', LAMBDA r : r.message_id = id)
                  >= CountRows(messages, LAMBDA r : r.message_id = id)
        /\ \A id \in CommentIds :
              CountRows(ad_comments', LAMBDA r : r.comment_id = id)
                  >= CountRows(ad_comments, LAMBDA r : r.comment_id = id)
        /\ {r.message_id : r \in DOMAIN messages}
               \subseteq {r.message_id : r \in DOMAIN messages'}
        /\ {r.comment_id : r \in DOMAIN ad_comments}
               \subseteq {r.comment_id : r \in DOMAIN ad_comments'}
        /\ CountRows(ad_comments', LAMBDA r : r.is_deleted)
               > CountRows(ad_comments, LAMBDA r : r.is_deleted)
           => WithoutColumns(ad_comments', {"is_deleted"})
                  = WithoutColumns(ad_comments, {"is_deleted"})
      ]_vars

\* A hidden comment is still stored, next to a message an agent marked
C7_Witness ==
    /\ \E r \in DOMAIN ad_comments : r.is_deleted /\ r.comment_id = "c1"
    /\ \E m \in DOMAIN messages : m.response_text = MARKED_DONE

\* C8 (as claimed): a delivery in which classifying or persisting a record
\* failed still runs to its end and is answered 200.
C8_FailedRecordStill200 ==
    \A h \in Workers :
        (hs[h].pc = "done" /\ hs[h].errors) => hs[h].response.status = 200

\* C9 (as claimed): the counts of the 200 response are the numbers of
\* messages and comments of the delivery that were written.
C9_CountsAreRowsWritten ==
    \A h \in Workers :
        (hs[h].pc = "done" /\ hs[h].response.is_json)
            => /\ hs[h].response.processed_messages = hs[h].saved_messages
               /\ hs[h].response.processed_comments = hs[h].saved_comments

\* C10: a POST that passes the signature check and whose body is no JSON
\* document is answered 400 and nothing of it is classified or written.
C10_MalformedIs400 ==
    \A h \in Workers :
        (hs[h].sig = "accepted" /\ hs[h].body = "other")
            => /\ hs[h].pc = "done"
               /\ hs[h].response.status = 400
               /\ NothingProcessed(h)

C10_Witness ==
    \E h \in Workers :
        /\ hs[h].sig = "accepted" /\ hs[h].body = "other"
        /\ APP_SECRET # <<>>
        /\ hs[h].response.status = 400

\* C11: a POST that passes the signature check and whose payload is an
\* object with an "object" member other than 'instagram' and 'page', or
\* with none, is answered "OK", 200 and nothing of it is classified,
\* counted or written.
C11_OtherObjectIs200Ignored ==
    \A h \in Workers :
        (hs[h].sig = "accepted" /\ hs[h].object \notin {"none", "instagram", "page"})
            => /\ hs[h].pc = "done"
               /\ hs[h].response.status = 200
               /\ hs[h].response.text = "OK"
               /\ ~hs[h].response.is_json
               /\ NothingProcessed(h)

C11_Witness ==
    \E h \in Workers :
        /\ APP_SECRET # <<>>
        /\ hs[h].sig = "accepted" /\ hs[h].object = ""
        /\ hs[h].response.status = 200

\* C12 (as claimed): every POST that passes the signature check is answered
\* 200 or 400, whatever the shape of its payload.
C12_AcceptedPostIs200Or400 ==
    \A h \in Workers :
        (hs[h].sig = "accepted" /\ hs[h].pc = "done")
            => hs[h].response.status \in {200, 400}

HasKeyword(kws, text) == AnyIn(kws, Lower(text))

\* C14 (as claimed): a text with no Kooperationen and no Feedback keyword
\* gets the one tag Kundenservice and priority normal, and the question
\* 'Ist das Produkt wieder verfuegbar?' is such a text.
C14_FallbackTagKundenservice ==
    (call.fn = "auto_tag_message" /\ call.done)
        => /\ (~HasKeyword(KooperationenKeywords, call.text)
                /\ ~HasKeyword(FeedbackKeywords, call.text))
               => call.result = [tags |-> <<"Kundenservice">>, priority |-> "normal"]
           /\ call.text = ProduktFrage
               => call.result = [tags |-> <<"Kundenservice">>, priority |-> "normal"]

\* C15: for every messaging event flagged as a story reply process_message
\* yields the one tag Feedback and priority low, whatever keywords its text
\* holds.
C15_StoryReplyIsFeedbackLow ==
    (call.fn = "process_message" /\ call.done /\ call.story)
        => /\ call.result.is_story_reply
           /\ call.result.tags = <<"Feedback">>
           /\ call.result.priority = "low"

\* A story reply whose text has a Kooperationen keyword and no Feedback one
C15_Witness ==
    /\ call.fn = "process_message" /\ call.done /\ call.story
    /\ call.text = KOOPERATION
    /\ auto_tag_message(call.text).tags = <<"Kooperationen">>
    /\ call.result.tags = <<"Feedback">>

\* C16 (as claimed): a non-story text gets one tag, the first of the table
\* whose keyword list matches: Kooperationen alone when keywords of both
\* lists match.
C16_FirstMatchingTagOnly ==
    (call.fn = "auto_tag_message" /\ call.done)
        => /\ Len(call.result.tags) = 1
           /\ HasKeyword(KooperationenKeywords, call.text)
               => call.result.tags = <<"Kooperationen">>

\* C17: a text with a negative keyword is classified negative, also when
\* it holds question keywords, by the webhook's classifier and by the
\* dashboard's, each with its own lists.
C17_NegativeBeforeQuestion ==
    /\ (call.fn = "analyze_comment_sentiment" /\ call.done
         /\ HasKeyword(negative_keywords, call.text))
        => call.result.sentiment = "negative"
    /\ (call.fn = "analyze_sentiment" /\ call.done
         /\ HasKeyword(negative_words, call.text))
        => call.result = "negative"

C17_Witness ==
    /\ call.fn = "analyze_comment_sentiment" /\ call.done
    /\ HasKeyword(negative_keywords, call.text)
    /\ HasKeyword(question_keywords, call.text)
    /\ call.result.sentiment = "negative"

\* C18: a text with no negative keyword is classified question if its lower
\* case holds a question indicator and positive otherwise (so the empty
\* text is positive); the webhook's classifier sets is_question exactly for
\* question and contains_complaint exactly for negative.
C18_QuestionElsePositive ==
    /\ (call.fn = "analyze_comment_sentiment" /\ call.done)
        => /\ ~HasKeyword(negative_keywords, call.text)
               => call.result.sentiment =
                      IF HasKeyword(question_keywords, call.text)
                      THEN "question" ELSE "positive"
           /\ call.result.is_question = (call.result.sentiment = "question")
           /\ call.result.contains_complaint = (call.result.sentiment = "negative")
    /\ (call.fn = "analyze_sentiment" /\ call.done
         /\ ~HasKeyword(negative_words, call.text))
        => call.result = IF HasKeyword(question_words, call.text)
                         THEN "question" ELSE "positive"
    /\ (call.fn = "analyze_comment_sentiment" /\ call.done /\ call.text = <<>>)
        => call.result.sentiment = "positive"
    /\ (call.fn = "analyze_sentiment" /\ call.done /\ call.text = <<>>)
        => call.result = "positive"

\* The dashboard classifier finds the indicator 'wann' in 'Wann'
C18_Witness ==
    /\ call.fn = "analyze_sentiment" /\ call.done
    /\ call.text = Wann
    /\ call.result = "question"

\* C19: send_instagram_message, reply_to_comment and like_comment raise
\* nothing: without a token, for a request that raised and for a response
\* whose status is not 200 (also one whose body is no JSON) they return
\* (False, detail), and they return (True, detail) only for a response with
\* status 200.
C19_OutboundCallsReturnTuples ==
    (call.fn \in {"send_instagram_message", "reply_to_comment", "like_comment"}
     /\ call.done)
        => /\ call.result.raised = ""
           /\ call.result.detail # ""
           /\ (call.token = "" \/ call.outcome.kind = "exception"
                \/ call.outcome.status_code # 200)
               => ~call.result.ok
           /\ call.result.ok
               => (call.token # "" /\ call.outcome.kind = "response"
                   /\ call.outcome.status_code = 200)

\* The vendor answered 500 with a body that is no JSON
C19_Witness ==
    /\ call.fn = "send_instagram_message" /\ call.done
    /\ call.token # ""
    /\ call.outcome.kind = "response" /\ call.outcome.status_code = 500
    /\ call.outcome.body = "not_json"
    /\ call.result = Returns(FALSE, "Fehler: JSONDecodeError")

\* The call listed the conversations: no filter was set and the query ran
Listed == call.fn = "load_conversations" /\ call.done /\ call.ok
          /\ call.filter_type = "all" /\ call.filter_tags_str = ""

\* Every customer of the table is listed once, under their own id
ListsEveryCustomerOnce ==
    /\ {call.frame[i].sender_id : i \in 1..Len(call.frame)}
           = {customer_id(r) : r \in DOMAIN messages}
    /\ Len(call.frame) = Cardinality({customer_id(r) : r \in DOMAIN messages})
    /\ \A i \in 1..Len(call.frame) : call.frame[i].sender_id # OWN_IG_ID

C21_PriorityFollowsTag ==
    (call.fn = "auto_tag_message" /\ call.done)
        => /\ call.result.tags = <<"Feedback">> => call.result.priority = "low"
           /\ call.result.tags \in {<<"Kooperationen">>, <<"Kundenservice">>}
                 => call.result.priority = "normal"

\* The changes that are objects with an object as value and are no new
\* comment: another field, another item, or another verb (an edit, a removal)
OtherChanges == {c \in Changes : c.shape = "object" /\ ~IsNewComment(c)}

\* C22: a change is processed as a comment only if its field is comments or
\* feed, its item is comment and its verb is add or created: no other change
\* is counted in processed_comments or handed to the INSERT, and every step
\* that counts a comment is the step of such a change.
C22_OnlyNewCommentsAreProcessed ==
    [][\A h \in Workers :
          /\ hs[h].pc = "changes" =>
                \A c \in OtherChanges, ok \in BOOLEAN :
                   LET t == change_step(hs[h], ad_comments, c, ok)
                   IN  /\ t.processed_comments = hs[h].processed_comments
                       /\ t.pending = hs[h].pending
                       /\ t.pc = "changes"
          /\ (hs[h].pc = "changes"
               /\ hs'[h].processed_comments > hs[h].processed_comments) =>
                \E c \in Changes \ OtherChanges, ok \in BOOLEAN :
                   /\ c.shape = "object"
                   /\ hs'[h] = change_step(hs[h], ad_comments, c, ok)
          /\ BagCardinality(ad_comments') > BagCardinality(ad_comments) =>
                \E g \in Workers :
                   /\ hs[g].pc = "insert"
                   /\ ad_comments' = Insert(ad_comments, CommentRow(hs[g].pending))
    ]_vars

\* A worker has gone through a change that is no new comment: nothing was
\* counted, nothing failed, nothing was stored
C22_Witness ==
    \E h \in Workers :
       /\ hs[h].pc = "changes"
       /\ hs[h].n > 0
       /\ hs[h].processed_comments = 0
       /\ ~hs[h].errors
       /\ ad_comments = EmptyBag

\* The rows load_conversations can list for customer c
RowsListedFor(c) == {row \in ConversationRows(messages) : row.sender_id = c}

\* C23 (as claimed): after bulk_mark_chats_as_read(S) succeeded, no customer
\* of S is listed by load_conversations with has_unanswered = 1.
C23_BulkMarkLeavesNoneUnanswered ==
    (call.fn = "bulk_mark_chats_as_read" /\ call.ok)
        => \A c \in call.sender_ids :
              \A row \in RowsListedFor(c) : row.has_unanswered = 0

\* C24 (as claimed): with filter_type 'unbeantwortet' load_conversations
\* returns exactly the conversations whose latest incoming message has no
\* response_text, and with a tag filter exactly those whose tags contain the
\* selected tag; it does not come back empty when such conversations exist.
C24_FiltersSelectMatching ==
    (call.fn = "load_conversations" /\ call.done /\ call.ok)
        => LET listed == {call.frame[i].sender_id : i \in 1..Len(call.frame)}
               unanswered == {row \in ConversationRows(messages) :
                                 row.has_unanswered = 1}
               tagged == {row \in ConversationRows(messages) :
                             \E i \in 1..Len(row.tags) :
                                row.tags[i] = call.filter_tags_str}
           IN  /\ (call.filter_type = "unbeantwortet" /\ call.filter_tags_str = "")
                     => listed = {row.sender_id : row \in unanswered}
               /\ (call.filter_type = "all" /\ call.filter_tags_str # "")
                     => listed = {row.sender_id : row \in tagged}

\* C25 (as claimed): after an agent sent a reply or marked the chat of a
\* customer as answered, and the row was written, load_conversations lists
\* that customer with has_unanswered = 0, also when the last stored message
\* of the chat is an outgoing one.
C25_AnsweredChatIsListedAnswered ==
    (call.fn \in {"send", "mark"} /\ call.success /\ call.ok)
        => \A row \in RowsListedFor(call.sender_id) : row.has_unanswered = 0

\* C26: a message row gets an agent's reply text as response_text, with
\* responded_by, only in a step of the send button in which
\* send_instagram_message returned success for that text; a send that failed,
\* or an empty text area, leaves the messages table as it was.
C26_AuditFollowsVendorCall ==
    [][ /\ (call'.fn = "send" /\ (~call'.success \/ call'.reply_text = ""))
              => messages' = messages
        /\ \A r \in DOMAIN messages' \ DOMAIN messages :
              r.response_text \notin {NULL, MARKED_DONE}
                 => /\ call'.fn = "send" /\ call'.success
                    /\ r.response_text = call'.reply_text
                    /\ r.responded_by = user_kuerzel
      ]_vars

\* A reply was sent and the row of the chat carries it
C26_Witness ==
    /\ call.fn = "send" /\ call.success /\ call.ok
    /\ \E r \in DOMAIN messages :
          /\ r.response_text = call.reply_text
          /\ call.sender_id \in {r.sender_id, r.recipient_id}

\* C27 (as claimed): a history sync inserts a message only when no row with
\* its message_id is stored, also when its existence query failed: no step
\* adds a synced row whose message_id the table already holds.
C27_SyncInsertsOnlyNewIds ==
    [][\A r \in DOMAIN messages' :
          (/\ r.status = "synced"
           /\ BagCardinality(messages') > BagCardinality(messages)
           /\ CopiesIn(r, messages') > CopiesIn(r, messages))
              => r.message_id \notin {x.message_id : x \in DOMAIN messages}
      ]_vars

\* C28 (as claimed): for every comment text the webhook's classifier
\* analyze_comment_sentiment and the dashboard's classifier analyze_sentiment
\* assign the same sentiment.
C28_ClassifiersAgree ==
    /\ (call.fn = "analyze_comment_sentiment" /\ call.done)
          => call.result.sentiment = analyze_sentiment(call.text)
    /\ (call.fn = "analyze_sentiment" /\ call.done)
          => call.result = analyze_comment_sentiment(call.text).sentiment

\* The configured secrets that are not empty
ConfiguredPasswords ==
    ({call.secrets.USER[i] : i \in 1..Len(TEAM_MEMBERS)} \cup {call.secrets.APP_PASSWORD})
        \ {None, ""}

\* C29 (as claimed): a session is authenticated only by a password that
\* equals a configured secret that is not empty (so an empty password never
\* authenticates), and the dashboard is served only to an authenticated
\* session.
C29_OnlyConfiguredPasswordAuthenticates ==
    call.fn = "dashboard"
        => /\ call.authenticated => call.password \in ConfiguredPasswords
           /\ call.served => call.authenticated

\* C30: a refresh adds a secret version only when the vendor's response
\* contains access_token, and the version it adds is exactly that token; when
\* the vendor returns an error, or reading the current token or the HTTP call
\* raises, no version is added, the Cloud Function answers success = false
\* with status 500, and the script ends with exit code 1 on a vendor error.
C30_RefreshStoresOnlyVendorToken ==
    (call.fn \in {"refresh_token", "main"} /\ call.done)
        => /\ call.versions # <<CurrentToken>>
                 => /\ call.result.kind = "token"
                    /\ call.versions = <<CurrentToken, call.result.access_token>>
           /\ (~call.read_ok \/ call.result.kind # "token")
                 => /\ call.versions = <<CurrentToken>>
                    /\ call.fn = "refresh_token"
                          => (~call.success /\ call.status = 500)
                    /\ (call.fn = "main" /\ call.read_ok /\ call.result.kind # "raises")
                          => call.exit = 1

\* The vendor returned a token and the Cloud Function stored it as the new
\* version
C30_Witness ==
    /\ call.fn = "refresh_token" /\ call.done
    /\ call.success /\ call.status = 200
    /\ call.versions = <<CurrentToken, call.result.access_token>>

====
